---- MODULE Spec2Model ----
(***************************************************************************)
(* xdrngtool.search_path: the consumption-path planner.                    *)
(*                                                                         *)
(* Seeds are represented by their index from current_seed, so              *)
(* current_seed is index 0 and target_seed is index total_advances.  The   *)
(* generator's period (2^32 in lcg.gc) is scaled to 2^LcgBits.             *)
(***************************************************************************)
EXTENDS Integers, Sequences, FiniteSets, TLC

VARIABLES
    pc,                         \* position inside search_path / the solver
    total_advances,             \* LCG.get_index(target_seed, current_seed)
    tsv,                        \* Optional[int]
    advances_by_opening_items,  \* Optional[int]
    lcg,                        \* lcg.index_from(current_seed)
    sequence,                   \* list of (team_pair, leftover)
    leftover,
    _teams,                     \* team pairs of the chosen prefix
    change_setting,
    write_report,
    teams                       \* list of (team, seed_before, psvs)

vars == <<pc, total_advances, tsv, advances_by_opening_items, lcg, sequence,
          leftover, _teams, change_setting, write_report, teams>>

\* Optional[...] = None
None == -1

ADVANCES_BY_CHANGING_SETTING == 40

ADVANCES_BY_WRITING_REPORT == 63

ClosedFormThreshold == 2520

\* ---------------------------------------------------------------- bounds

LcgBits == 12

LcgPeriod == 2 ^ LcgBits

MaxTsv == 1

MaxOpeningItems == 2

MinQuickBattleAdvances == 600

QuickBattleSpread == 10

MaxGenerations == 30

MaxSolveTotal == 10000

\* ------------------------------------------------- external collaborators

\* Advances consumed by one generate_quick_battle call made at `seed`.
QuickBattleAdvances(seed, t) ==
    IF t = None
    THEN MinQuickBattleAdvances
    ELSE MinQuickBattleAdvances
           + QuickBattleSpread * ((seed \div MinQuickBattleAdvances + t) % 3)

\* lcg.index_from(current_seed) after generate_quick_battle at `seed`.
Generated(seed, t) == (seed + QuickBattleAdvances(seed, t)) % LcgPeriod

\* ------------------------------------------------------------ the solver

\* raise Exception(...): no pair
Infeasible == <<>>

\* range(n) as a set
Range(n) == 0 .. (n - 1)

\* sorted(pairs, key=lambda p: p[0] + p[1]).pop(0): pairs is built in
\* increasing x, the sort is stable.
SmallestSum(pairs) ==
    CHOOSE p \in pairs :
        \A q \in pairs :
            \/ p[1] + p[2] < q[1] + q[2]
            \/ (p[1] + p[2] = q[1] + q[2] /\ p[1] <= q[1])

\* Mutant: range(total_advances // 63) without the + 1.
under_2520_short_range(total) ==
    LET pairs == { p \in Range(total \div 63) \X Range(total \div 40 + 1) :
                     63 * p[1] + 40 * p[2] = total }
    IN  IF pairs = {} THEN Infeasible ELSE SmallestSum(pairs)

_search_pair_with_the_smallest_sum_under_2520(total) ==
    LET pairs == { p \in Range(total \div 63 + 1) \X Range(total \div 40 + 1) :
                     63 * p[1] + 40 * p[2] = total }
    IN  IF pairs = {} THEN Infeasible ELSE SmallestSum(pairs)

\* Mutant: int(-11 * total_advances / 63), truncating toward zero.
ClosedFormT_truncated(total) == -((11 * total) \div 63)

\* Mutant: one t below the largest feasible one.
ClosedFormT_one_below(total) == (-11 * total) \div 63 - 1

\* math.floor(-11 * total_advances / 63)
ClosedFormT(total) == (-11 * total) \div 63

_search_pair_with_the_smallest_sum(total) ==
    IF total < ClosedFormThreshold
    THEN _search_pair_with_the_smallest_sum_under_2520(total)
    ELSE LET t == ClosedFormT(total)
         IN  <<40 * t + 7 * total, -63 * t - 11 * total>>

\* ----------------------------------------------------------- search_path

Inputs ==
    /\ total_advances \in 0 .. (LcgPeriod - 1)
    /\ tsv \in {None} \cup (0 .. MaxTsv)
    /\ advances_by_opening_items \in {None} \cup (1 .. MaxOpeningItems)

Init ==
    /\ Inputs
    /\ pc = "generate"
    /\ lcg = 0
    /\ sequence = <<>>
    /\ leftover = 0
    /\ _teams = <<>>
    /\ change_setting = 0
    /\ write_report = 0
    /\ teams = <<>>

\* lines 38-41: one iteration of the while loop
Generate ==
    /\ pc = "generate"
    /\ lcg <= total_advances
    /\ Len(sequence) < MaxGenerations
    /\ lcg' = Generated(lcg, tsv)
    /\ sequence' = Append(sequence,
                          [team_pair |-> lcg, leftover |-> total_advances - lcg'])
    /\ UNCHANGED <<pc, total_advances, tsv, advances_by_opening_items, leftover,
                   _teams, change_setting, write_report, teams>>

\* Mutant: the overshooting sample is not dropped.
PopOvershoot_forgotten ==
    /\ pc = "generate"
    /\ lcg > total_advances
    /\ pc' = "select"
    /\ UNCHANGED <<total_advances, tsv, advances_by_opening_items, lcg, sequence,
                   leftover, _teams, change_setting, write_report, teams>>

\* line 42: the loop has ended, the overshooting sample is dropped
PopOvershoot ==
    /\ pc = "generate"
    /\ lcg > total_advances
    /\ sequence' = SubSeq(sequence, 1, Len(sequence) - 1)
    /\ pc' = "select"
    /\ UNCHANGED <<total_advances, tsv, advances_by_opening_items, lcg, leftover,
                   _teams, change_setting, write_report, teams>>

\* line 61: [item[1] % ADVANCES_BY_CHANGING_SETTING == 0 for item in sequence]
can_finish(seq) ==
    [i \in 1 .. Len(seq) |-> seq[i].leftover % ADVANCES_BY_CHANGING_SETTING = 0]

\* line 63: len(can_finish) - can_finish[::-1].index(True) - 1, 0-based
last_index(seq) ==
    (CHOOSE i \in 1 .. Len(seq) :
        /\ can_finish(seq)[i]
        /\ \A j \in (i + 1) .. Len(seq) : ~can_finish(seq)[j]) - 1

\* [item[0] for item in seq]
TeamPairs(seq) == [i \in 1 .. Len(seq) |-> seq[i].team_pair]

\* lines 68-73: the leftover chosen once last_index is known
TruncatedLeftover(seq) ==
    IF last_index(seq) = 0
    THEN seq[1].leftover
    ELSE seq[last_index(seq) + 1].leftover

\* lines 68-73: the team pairs kept once last_index is known
TruncatedTeams(seq) ==
    IF last_index(seq) = 0
    THEN TeamPairs(seq)
    ELSE SubSeq(TeamPairs(seq), 1, last_index(seq) + 1)

\* lines 55-66: the conditions under which CANNOT_REACH_EXCEPTION is raised
CannotFinish(seq, total) ==
    IF Len(seq) = 0
    THEN total % ADVANCES_BY_CHANGING_SETTING # 0
    ELSE \A i \in 1 .. Len(seq) : ~can_finish(seq)[i]

\* line 82
advances_by_loading(opening) == (opening - 1) * 2

\* line 89: the bound a kept last entry meets
LoadingBound(opening) ==
    ADVANCES_BY_WRITING_REPORT * ADVANCES_BY_CHANGING_SETTING
        + advances_by_loading(opening)

\* Mutant: <= in place of <, an entry equal to the bound is popped.
MustPop_inclusive(entry, opening) == entry.leftover <= LoadingBound(opening)

\* line 89: the condition under which the last entry is popped
MustPop(entry, opening) == entry.leftover < LoadingBound(opening)

\* lines 88-92: pop while the last entry is under the bound; the IndexError
\* of an emptied list ends the loop
RECURSIVE PopUnderBound(_, _)
PopUnderBound(seq, opening) ==
    IF Len(seq) = 0
    THEN seq
    ELSE IF MustPop(seq[Len(seq)], opening)
         THEN PopUnderBound(SubSeq(seq, 1, Len(seq) - 1), opening)
         ELSE seq

\* lines 84-96: the leftover handed to the solver
LoadingLeftover(seq, total, opening) ==
    IF Len(seq) = 0
    THEN total - advances_by_loading(opening)
    ELSE seq[Len(seq)].leftover - advances_by_loading(opening)

\* lines 107-111: regenerate from current_seed, once per kept team pair
RECURSIVE Repack(_, _, _, _)
Repack(n, seed, t, acc) ==
    IF n = 0
    THEN acc
    ELSE Repack(n - 1, Generated(seed, t), t,
                Append(acc, [team |-> seed, seed_before |-> seed]))

\* lines 48-75 then 104-114, without loading: the path is returned
ReturnWithoutLoading ==
    /\ pc = "select"
    /\ advances_by_opening_items = None
    /\ ~CannotFinish(sequence, total_advances)
    /\ leftover' = IF Len(sequence) = 0 THEN total_advances
                   ELSE TruncatedLeftover(sequence)
    /\ _teams' = IF Len(sequence) = 0 THEN <<>> ELSE TruncatedTeams(sequence)
    /\ change_setting' = leftover' \div ADVANCES_BY_CHANGING_SETTING
    /\ teams' = Repack(Len(_teams'), 0, tsv, <<>>)
    /\ pc' = "done"
    /\ UNCHANGED <<total_advances, tsv, advances_by_opening_items, lcg, sequence,
                   write_report>>

\* lines 58 and 66: raise CANNOT_REACH_EXCEPTION
RaiseWithoutLoading ==
    /\ pc = "select"
    /\ advances_by_opening_items = None
    /\ CannotFinish(sequence, total_advances)
    /\ leftover' = total_advances
    /\ pc' = "raised"
    /\ UNCHANGED <<total_advances, tsv, advances_by_opening_items, lcg, sequence,
                   _teams, change_setting, write_report, teams>>

\* lines 77-102 then 104-114, with loading: the path is returned
ReturnWithLoading ==
    /\ pc = "select"
    /\ advances_by_opening_items # None
    /\ sequence' = PopUnderBound(sequence, advances_by_opening_items)
    /\ leftover' = LoadingLeftover(sequence', total_advances,
                                   advances_by_opening_items)
    /\ _search_pair_with_the_smallest_sum(leftover') # Infeasible
    /\ write_report' = _search_pair_with_the_smallest_sum(leftover')[1]
    /\ change_setting' = _search_pair_with_the_smallest_sum(leftover')[2]
    /\ _teams' = TeamPairs(sequence')
    /\ teams' = Repack(Len(_teams'), 0, tsv, <<>>)
    /\ pc' = "done"
    /\ UNCHANGED <<total_advances, tsv, advances_by_opening_items, lcg>>

\* lines 98-101: the solver raised, raise CANNOT_REACH_EXCEPTION
RaiseWithLoading ==
    /\ pc = "select"
    /\ advances_by_opening_items # None
    /\ sequence' = PopUnderBound(sequence, advances_by_opening_items)
    /\ leftover' = LoadingLeftover(sequence', total_advances,
                                   advances_by_opening_items)
    /\ _search_pair_with_the_smallest_sum(leftover') = Infeasible
    /\ pc' = "raised"
    /\ UNCHANGED <<total_advances, tsv, advances_by_opening_items, lcg, _teams,
                   change_setting, write_report, teams>>

Next ==
    \/ Generate
    \/ PopOvershoot
    \/ ReturnWithoutLoading
    \/ RaiseWithoutLoading
    \/ ReturnWithLoading
    \/ RaiseWithLoading

Spec == Init /\ [][Next]_vars

\* ------------------------------------------ the solver called on its own

SolveInit ==
    /\ pc = "solve"
    /\ leftover \in 0 .. MaxSolveTotal
    /\ total_advances = 0
    /\ tsv = None
    /\ advances_by_opening_items = None
    /\ lcg = 0
    /\ sequence = <<>>
    /\ _teams = <<>>
    /\ change_setting = 0
    /\ write_report = 0
    /\ teams = <<>>

\* line 99: write_report, change_setting = _search_pair_with_the_smallest_sum(leftover)
SolveReturn ==
    /\ pc = "solve"
    /\ _search_pair_with_the_smallest_sum(leftover) # Infeasible
    /\ write_report' = _search_pair_with_the_smallest_sum(leftover)[1]
    /\ change_setting' = _search_pair_with_the_smallest_sum(leftover)[2]
    /\ pc' = "solved"
    /\ UNCHANGED <<total_advances, tsv, advances_by_opening_items, lcg, sequence,
                   leftover, _teams, teams>>

\* line 167: the exhaustive search found no pair
SolveRaise ==
    /\ pc = "solve"
    /\ _search_pair_with_the_smallest_sum(leftover) = Infeasible
    /\ pc' = "infeasible"
    /\ UNCHANGED <<total_advances, tsv, advances_by_opening_items, lcg, sequence,
                   leftover, _teams, change_setting, write_report, teams>>

SolveNext == SolveReturn \/ SolveRaise

SolveSpec == SolveInit /\ [][SolveNext]_vars

\* ------------------------------------------------------ claim vocabulary

\* Steps the loading action consumes: 0 without loading.
LoadingSteps ==
    IF advances_by_opening_items = None
    THEN 0
    ELSE (advances_by_opening_items - 1) * 2

\* Steps consumed by the probes of the first n records of a path.
RECURSIVE ProbeSteps(_, _)
ProbeSteps(path, n) ==
    IF n = 0
    THEN 0
    ELSE ProbeSteps(path, n - 1) + QuickBattleAdvances(path[n].seed_before, tsv)

\* Leftover after a candidate prefix of k probes, k = 0 being the empty prefix.
LeftoverAfter(seq, k) == IF k = 0 THEN total_advances ELSE seq[k].leftover

\* n is a non-negative integer combination 63*x + 40*y.
Representable(n) ==
    /\ n >= 0
    /\ \E x \in 0 .. (n \div 63) : (n - 63 * x) % 40 = 0

\* <<x, y>> solves 63*x + 40*y = n with the smallest x + y.
IsSmallestPair(x, y, n) ==
    /\ x >= 0
    /\ y >= 0
    /\ 63 * x + 40 * y = n
    /\ \A a \in 0 .. (n \div 63) :
          (n - 63 * a) % 40 = 0 => x + y <= a + (n - 63 * a) \div 40

\* Indices of the retained entries a path may stop at without loading.
Finishable(seq) == { i \in 1 .. Len(seq) : seq[i].leftover % 40 = 0 }

\* Largest member of a non-empty set of indices.
Largest(S) == CHOOSE i \in S : \A j \in S : j <= i

\* Length of the longest prefix whose last entry has leftover >= bound, or 0.
KeptLength(seq, bound) ==
    Largest({0} \cup { i \in 1 .. Len(seq) : seq[i].leftover >= bound })

\* ------------------------------------------------------------------ C1
\* C1: for every returned path, the steps of its probe records plus
\* 40*numChangeSetting plus 63*numWriteReport plus the loading steps equal
\* stepsBetween(currentState, targetState) exactly.
C1_StepsReconcile ==
    pc = "done" =>
        ProbeSteps(teams, Len(teams)) + 40 * change_setting + 63 * write_report
            + LoadingSteps = total_advances

\* ------------------------------------------------------------------ C2
\* C2: for every total >= 2520 the solver returns (x, y) with
\* 63*x + 40*y = total, x >= 0, y >= 0, and no other non-negative pair has a
\* smaller x + y.
C2_ClosedFormSmallest ==
    leftover >= 2520 =>
        /\ pc # "infeasible"
        /\ pc = "solved" => IsSmallestPair(write_report, change_setting, leftover)

\* A total >= 2520 solved with both actions used, where a second pair with a
\* larger sum exists.
C2_Witness ==
    /\ pc = "solved"
    /\ leftover >= 2520
    /\ write_report > 0
    /\ change_setting > 0
    /\ \E a \in 0 .. (leftover \div 63) :
          /\ a # write_report
          /\ (leftover - 63 * a) % 40 = 0

\* ------------------------------------------------------------------ C3
\* C3: for 0 <= total < 2520 the solver raises iff no non-negative pair
\* satisfies 63*x + 40*y = total and otherwise returns the pair with the
\* smallest x + y; solve(2417) fails and no larger total fails.
C3_ExhaustiveMatches ==
    /\ pc = "infeasible" => (~Representable(leftover) /\ leftover <= 2417)
    /\ (pc = "solved" /\ leftover < 2520) =>
          IsSmallestPair(write_report, change_setting, leftover)
    /\ leftover = 2417 => pc # "solved"

\* The solver has raised on 2417.
C3_Witness == pc = "infeasible" /\ leftover = 2417

\* ------------------------------------------------------------------ C4
\* C4: without loading, Unreachable is raised only if no candidate prefix of
\* length 0..N, the empty prefix included, has a leftover divisible by 40.
C4_RaisedOnlyIfNoPrefix ==
    (pc = "raised" /\ advances_by_opening_items = None) =>
        \A k \in 0 .. Len(sequence) : LeftoverAfter(sequence, k) % 40 # 0

\* ------------------------------------------------------------------ C5
\* C5: with loading, Unreachable is raised only when no prefix length k in
\* 0..N leaves (leftover after k probes) - loadingSteps representable as
\* 63*x + 40*y with x, y >= 0.
C5_RaisedOnlyIfNoDecomposition ==
    [][(pc = "select" /\ advances_by_opening_items # None /\ pc' = "raised") =>
          \A k \in 0 .. Len(sequence) :
              ~Representable(LeftoverAfter(sequence, k) - LoadingSteps)]_vars

\* ------------------------------------------------------------------ C6
\* C6: every returned path has numChangeSetting >= 0 and numWriteReport >= 0,
\* and without loading numWriteReport is 0.
C6_CountsNonNegative ==
    pc = "done" =>
        /\ change_setting >= 0
        /\ write_report >= 0
        /\ advances_by_opening_items = None => write_report = 0

\* A path returned with loading through the closed form, both actions used.
C6_Witness ==
    /\ pc = "done"
    /\ advances_by_opening_items # None
    /\ leftover >= 2520
    /\ write_report > 0
    /\ change_setting > 0

\* ------------------------------------------------------------------ C7
\* C7: if solve(total) succeeds with sum s, then solve(total + 2520)
\* succeeds with a sum <= s + 40.
C7_Monotone ==
    pc = "solved" =>
        LET r == _search_pair_with_the_smallest_sum(leftover + 2520)
        IN  /\ r # Infeasible
            /\ r[1] + r[2] <= write_report + change_setting + 40

\* A total under 2520 solved by the exhaustive search.
C7_Witness ==
    /\ pc = "solved"
    /\ leftover < 2520
    /\ write_report + change_setting > 0

\* ------------------------------------------------------------------ C8
\* C8: without loading, when some retained entry has leftover % 40 = 0 and
\* j is the largest such index, the path holds exactly the first j entries
\* (inclusive of j), numChangeSetting = leftover_j / 40, numWriteReport = 0.
C8_TruncatedAtLargest ==
    (/\ pc = "done"
     /\ advances_by_opening_items = None
     /\ Finishable(sequence) # {}) =>
        LET j == Largest(Finishable(sequence))
        IN  /\ Len(teams) = j
            /\ change_setting = sequence[j].leftover \div 40
            /\ write_report = 0

\* ------------------------------------------------------------------ C9
\* C9: with loading, the probe records are exactly the longest prefix of the
\* retained sequence whose last entry has leftover >= 2520 + loadingSteps
\* (an entry equal to the bound is kept), and the solver is called on that
\* entry's leftover - loadingSteps, or on totalSteps - loadingSteps with no
\* records when no entry meets the bound.
C9_LongestPrefixKept ==
    [][(pc = "select" /\ advances_by_opening_items # None) =>
          LET k == KeptLength(sequence, 2520 + LoadingSteps)
          IN  /\ leftover' = LeftoverAfter(sequence, k) - LoadingSteps
              /\ pc' = "done" =>
                    /\ Len(teams') = k
                    /\ \A i \in 1 .. k : teams'[i].team = sequence[i].team_pair]_vars

\* A path returned with loading whose last record's leftover equals the
\* bound exactly.
C9_Witness ==
    /\ pc = "done"
    /\ advances_by_opening_items # None
    /\ Len(teams) >= 1
    /\ Len(sequence) = Len(teams)
    /\ sequence[Len(sequence)].leftover = 2520 + LoadingSteps

\* ----------------------------------------------------------------- C10
\* C10: the scanning loop samples at most floor(totalSteps / probeStepCost)
\* + 1 probes.
C10_ScanBounded ==
    Len(sequence) <= total_advances \div MinQuickBattleAdvances + 1

====
